---- MODULE Spec2Model ----
(***************************************************************************)
(* Model of the LoRa tourist positioning system (tourist-safety-system).   *)
(*                                                                         *)
(* The master node's main loop (src/nodes/master.py, run_master) is        *)
(* modelled as a control loop:                                             *)
(*     recv -> tri -> [send ->] timeout -> recv ...                        *)
(* where send is the time the loop spends inside backend.send_location.    *)
(* Radio messages are sequences of one-character strings so that the      *)
(* substring tests, split(":"), strip(), upper() and int() of the code     *)
(* are computed, not assumed.  Time is the integer number of seconds read  *)
(* by time.time().  Distances and coordinates are integers in centimetres  *)
(* (the code rounds both to two decimals).                                 *)
(***************************************************************************)
EXTENDS Integers, Sequences, FiniteSets, TLC

VARIABLES
    pc,                  \* position of run_master in its loop body
    now,                 \* value time.time() returns (seconds since start)
    current_readings,    \* master.py:112  dict anchor id -> rssi
    last_ping_time,      \* master.py:113
    last_heartbeat_time, \* master.py:114
    current_device_id,   \* master.py:115
    is_sos,              \* master.py:116
    total_positions,     \* master.py:119
    successful_sends,    \* master.py:120
    delivery,            \* the fix handed to backend.send_location in this iteration
    script,              \* the radio traffic of a scenario, <<>> when the radio is free
    delivered,           \* number of script messages the master has received
    last_ingest,         \* history: time of the latest stored reading
    reading_time,        \* history: when each entry of current_readings was stored
    attempt,             \* backend_client.py:68  attempt of the send in progress
    diagnostic,          \* what the cycle of this iteration printed on failure
    anchors,             \* master.py:85  anchors.json as get_anchors() returns it
    call,                \* arguments of a direct call of MathEngine.trilaterate
    result               \* what that call returned

vars == <<pc, now, current_readings, last_ping_time, last_heartbeat_time,
          current_device_id, is_sos, total_positions, successful_sends,
          delivery, script, delivered, last_ingest, reading_time, attempt,
          diagnostic,
          anchors, call, result>>

\* what the master loop never assigns
fixed == <<anchors, call, result>>

\* the state of run_master
master == <<pc, now, current_readings, last_ping_time, last_heartbeat_time,
            current_device_id, is_sos, total_positions, successful_sends,
            delivery, script, delivered, last_ingest, reading_time, attempt,
          diagnostic,
            anchors>>

(***************************************************************************)
(* Bounds of the model.                                                    *)
(***************************************************************************)
TickStep == 16
MaxNow == 32
MaxPositions == 2
WeakestSample == 105
StrongestSample == 5
MaxPings == 30
IdleStep == 5

(***************************************************************************)
(* Program constants.                                                      *)
(***************************************************************************)
RSSI_AT_1M == -40
ENV_FACTOR_N == 4
TIMEOUT_SECONDS == 15
HEARTBEAT_SECONDS == 60
RETRY_COUNT == 3
RETRY_SLEEP == 1
REQUEST_TIMEOUT == 5
REPORT_DELAY_MS == 500
PING_INTERVAL == 2
STRONGEST_RSSI == -10
\* log10 of the largest finite double, times 10^4: 10 ** e raises
\* OverflowError exactly when e exceeds it.
DBL_MAX_LOG10_E4 == 3082547

(***************************************************************************)
(* Text: a string is a sequence of one-character strings.                  *)
(***************************************************************************)
None == <<"None">>

sPING == <<"P", "I", "N", "G">>
sSOS == <<"S", "O", "S">>
sREPORT == <<"R", "E", "P", "O", "R", "T">>
sMASTER == <<"M", "A", "S", "T", "E", "R">>
sANCHOR_2 == <<"A", "N", "C", "H", "O", "R", "_", "2">>
sANCHOR_3 == <<"A", "N", "C", "H", "O", "R", "_", "3">>
sANCHOR_4 == <<"A", "N", "C", "H", "O", "R", "_", "4">>
sColon == <<":">>

LowerLetters == <<"a", "b", "c", "d", "e", "f", "g", "h", "i", "j", "k", "l", "m",
                  "n", "o", "p", "q", "r", "s", "t", "u", "v", "w", "x", "y", "z">>
UpperLetters == <<"A", "B", "C", "D", "E", "F", "G", "H", "I", "J", "K", "L", "M",
                  "N", "O", "P", "Q", "R", "S", "T", "U", "V", "W", "X", "Y", "Z">>
Digits == <<"0", "1", "2", "3", "4", "5", "6", "7", "8", "9">>
Whitespace == {" "}

\* pat in s
Contains(s, pat) ==
    \E i \in 1..(Len(s) - Len(pat) + 1) : SubSeq(s, i, i + Len(pat) - 1) = pat

\* s.split(":")
RECURSIVE Split(_)
Split(s) ==
    IF \A i \in 1..Len(s) : s[i] # ":"
    THEN <<s>>
    ELSE LET i == CHOOSE k \in 1..Len(s) :
                      s[k] = ":" /\ \A j \in 1..(k - 1) : s[j] # ":"
         IN <<SubSeq(s, 1, i - 1)>> \o Split(SubSeq(s, i + 1, Len(s)))

\* s.strip()
Strip(s) ==
    LET keep == {i \in 1..Len(s) : s[i] \notin Whitespace}
    IN IF keep = {} THEN <<>>
       ELSE LET lo == CHOOSE i \in keep : \A j \in keep : i <= j
                hi == CHOOSE i \in keep : \A j \in keep : i >= j
            IN SubSeq(s, lo, hi)

UpperChar(c) ==
    IF \E i \in 1..26 : LowerLetters[i] = c
    THEN UpperLetters[CHOOSE i \in 1..26 : LowerLetters[i] = c]
    ELSE c

\* s.upper()
Upper(s) == [i \in 1..Len(s) |-> UpperChar(s[i])]

IsDigit(c) == \E i \in 1..10 : Digits[i] = c
DigitVal(c) == (CHOOSE i \in 1..10 : Digits[i] = c) - 1

RECURSIVE DigitsValue(_)
DigitsValue(s) ==
    IF s = <<>> THEN 0
    ELSE IF s[Len(s)] = "_" THEN DigitsValue(SubSeq(s, 1, Len(s) - 1))
    ELSE 10 * DigitsValue(SubSeq(s, 1, Len(s) - 1)) + DigitVal(s[Len(s)])

\* int(s): surrounding whitespace, an optional sign, decimal digits with
\* single underscores between digits.  ok = FALSE stands for ValueError.
ParseInt(s) ==
    LET t == Strip(s)
        signed == t # <<>> /\ t[1] \in {"+", "-"}
        body == IF signed THEN SubSeq(t, 2, Len(t)) ELSE t
        wellFormed ==
            /\ body # <<>>
            /\ \A i \in 1..Len(body) : IsDigit(body[i]) \/ body[i] = "_"
            /\ IsDigit(body[1])
            /\ IsDigit(body[Len(body)])
            /\ \A i \in 1..(Len(body) - 1) : ~(body[i] = "_" /\ body[i + 1] = "_")
    IN IF ~wellFormed THEN [ok |-> FALSE, val |-> 0]
       ELSE [ok |-> TRUE,
             val |-> IF signed /\ t[1] = "-" THEN 0 - DigitsValue(body)
                     ELSE DigitsValue(body)]

\* str(n) of a natural number
RECURSIVE FormatNat(_)
FormatNat(n) ==
    IF n < 10 THEN <<Digits[n + 1]>>
    ELSE FormatNat(n \div 10) \o <<Digits[(n % 10) + 1]>>

\* f"{n}" of an integer
FormatInt(n) == IF n < 0 THEN <<"-">> \o FormatNat(0 - n) ELSE FormatNat(n)

(***************************************************************************)
(* MathEngine (src/utils/math_helper.py).                                  *)
(* A distance is [kind, cm, num]: kind "float" carries the rounded value   *)
(* in centimetres; kind "big" is a finite float above the fixed-point      *)
(* range of the table, known only by its exponent num / (10 * N); kind     *)
(* "OverflowError" is the exception 10 ** exponent raises.                 *)
(***************************************************************************)
MinTableNum == RSSI_AT_1M - STRONGEST_RSSI
MaxTableNum == 60

\* round(10 ** (num / 40.0), 2) * 100 for num = -30 .. 60, as CPython
\* evaluates math_helper.py:21-23 with ENV_FACTOR_N = 4.0
DistanceTable ==
    << 18, 19, 20, 21, 22, 24, 25, 27, 28, 30, 32, 33, 35,
       38, 40, 42, 45, 47, 50, 53, 56, 60, 63, 67, 71, 75,
       79, 84, 89, 94, 100, 106, 112, 119, 126, 133, 141, 150, 158,
       168, 178, 188, 200, 211, 224, 237, 251, 266, 282, 299, 316, 335,
       355, 376, 398, 422, 447, 473, 501, 531, 562, 596, 631, 668, 708,
       750, 794, 841, 891, 944, 1000, 1059, 1122, 1189, 1259, 1334, 1413, 1496,
       1585, 1679, 1778, 1884, 1995, 2113, 2239, 2371, 2512, 2661, 2818, 2985, 3162 >>

\* 10 ** (num / den) exceeds the largest double
PowOverflows(num, den) == num * 10000 > DBL_MAX_LOG10_E4 * den

\* no clamp
ClampRssi_Identity(rssi) == rssi

\* the clamp of math_helper.py:18
ClampRssi(rssi) == IF rssi > STRONGEST_RSSI THEN STRONGEST_RSSI ELSE rssi

rssi_to_distance(rssi) ==
    LET num == RSSI_AT_1M - ClampRssi(rssi)
        den == 10 * ENV_FACTOR_N
    IN IF PowOverflows(num, den)
       THEN [kind |-> "OverflowError", cm |-> 0, num |-> num]
       ELSE IF num >= MinTableNum /\ num <= MaxTableNum
       THEN [kind |-> "float", cm |-> DistanceTable[num - MinTableNum + 1], num |-> num]
       ELSE [kind |-> "big", cm |-> 0, num |-> num]

\* r ** 2 raises OverflowError (math_helper.py:56, 60)
SquareOverflows(r) ==
    r.kind = "big" /\ PowOverflows(2 * r.num, 10 * ENV_FACTOR_N)

\* round(n / d) to the nearest integer, ties to even, d # 0
RoundDiv(n, d) ==
    LET nn == IF d < 0 THEN 0 - n ELSE n
        dd == IF d < 0 THEN 0 - d ELSE d
        q == nn \div dd
        r == nn - q * dd
    IN IF 2 * r < dd THEN q
       ELSE IF 2 * r > dd THEN q + 1
       ELSE IF q % 2 = 0 THEN q ELSE q + 1

\* trilaterate with y divided by x's denominator E*A - B*D
trilaterate_SharedDenominator(anchors_data) ==
    IF Len(anchors_data) < 3 THEN [kind |-> "None", x |-> 0, y |-> 0]
    ELSE
    LET x1 == anchors_data[1].x
        y1 == anchors_data[1].y
        r1 == anchors_data[1].r
        x2 == anchors_data[2].x
        y2 == anchors_data[2].y
        r2 == anchors_data[2].r
        x3 == anchors_data[3].x
        y3 == anchors_data[3].y
        r3 == anchors_data[3].r
        A == (0 - 2) * x1 + 2 * x2
        B == (0 - 2) * y1 + 2 * y2
        \* C and F in cm^2: radii are in cm, coordinates in m
        C == r1.cm * r1.cm - r2.cm * r2.cm
             + 10000 * (0 - x1 * x1 + x2 * x2 - y1 * y1 + y2 * y2)
        D == (0 - 2) * x2 + 2 * x3
        E == (0 - 2) * y2 + 2 * y3
        F == r2.cm * r2.cm - r3.cm * r3.cm
             + 10000 * (0 - x2 * x2 + x3 * x3 - y2 * y2 + y3 * y3)
    IN IF SquareOverflows(r1) \/ SquareOverflows(r2) \/ SquareOverflows(r3)
       THEN [kind |-> "OverflowError", x |-> 0, y |-> 0]
       ELSE IF E * A - B * D = 0
       THEN [kind |-> "None", x |-> 0, y |-> 0]
       ELSE IF r1.kind = "big" \/ r2.kind = "big" \/ r3.kind = "big"
       THEN [kind |-> "big", x |-> 0, y |-> 0]
       ELSE [kind |-> "point",
             x |-> RoundDiv(C * E - F * B, 100 * (E * A - B * D)),
             y |-> RoundDiv(C * D - A * F, 100 * (E * A - B * D))]

\* anchors_data: sequence of [x, y, r], x and y in metres, r a distance.
\* Result [kind, x, y]: "None", "point" (x, y in centimetres), "big"
\* (a pair of floats outside the fixed-point range) or "OverflowError".
trilaterate(anchors_data) ==
    IF Len(anchors_data) < 3 THEN [kind |-> "None", x |-> 0, y |-> 0]
    ELSE
    LET x1 == anchors_data[1].x
        y1 == anchors_data[1].y
        r1 == anchors_data[1].r
        x2 == anchors_data[2].x
        y2 == anchors_data[2].y
        r2 == anchors_data[2].r
        x3 == anchors_data[3].x
        y3 == anchors_data[3].y
        r3 == anchors_data[3].r
        A == (0 - 2) * x1 + 2 * x2
        B == (0 - 2) * y1 + 2 * y2
        \* C and F in cm^2: radii are in cm, coordinates in m
        C == r1.cm * r1.cm - r2.cm * r2.cm
             + 10000 * (0 - x1 * x1 + x2 * x2 - y1 * y1 + y2 * y2)
        D == (0 - 2) * x2 + 2 * x3
        E == (0 - 2) * y2 + 2 * y3
        F == r2.cm * r2.cm - r3.cm * r3.cm
             + 10000 * (0 - x2 * x2 + x3 * x3 - y2 * y2 + y3 * y3)
    IN IF SquareOverflows(r1) \/ SquareOverflows(r2) \/ SquareOverflows(r3)
       THEN [kind |-> "OverflowError", x |-> 0, y |-> 0]
       ELSE IF E * A - B * D = 0
       THEN [kind |-> "None", x |-> 0, y |-> 0]
       ELSE IF r1.kind = "big" \/ r2.kind = "big" \/ r3.kind = "big"
       THEN [kind |-> "big", x |-> 0, y |-> 0]
       ELSE [kind |-> "point",
             x |-> RoundDiv(C * E - F * B, 100 * (E * A - B * D)),
             y |-> RoundDiv(C * D - A * F, 100 * (B * D - A * E))]

(***************************************************************************)
(* Configuration: anchors.json as get_anchors() returns it, coordinates in *)
(* metres.  anchors.json is an input of the program: the deployment has    *)
(* the three required anchors at the corners of a triangle, a faulty       *)
(* deployment has them on one line.                                        *)
(***************************************************************************)
RequiredAnchors == <<sMASTER, sANCHOR_2, sANCHOR_3>>
Required == {RequiredAnchors[i] : i \in 1..3}

Layout(p1, p2, p3) ==
    [a \in Required |->
        IF a = sMASTER THEN [x |-> p1[1], y |-> p1[2]]
        ELSE IF a = sANCHOR_2 THEN [x |-> p2[1], y |-> p2[2]]
        ELSE [x |-> p3[1], y |-> p3[2]]]

TriangleLayout == Layout(<<0, 0>>, <<10, 0>>, <<5, 9>>)

LineLayouts ==
    { Layout(<<0, 0>>, <<5, 0>>, <<10, 0>>),
      Layout(<<0, 0>>, <<3, 4>>, <<6, 8>>) }

(***************************************************************************)
(* The radio: what lora.receive() can return (src/drivers/sx126x.py).      *)
(***************************************************************************)
Txt(a, b) == a \o sColon \o b
Txt3(a, b, c) == a \o sColon \o b \o sColon \o c

sD1 == <<"D", "1">>
sd2 == <<"d", "2">>
sSOSD == <<"S", "O", "S", "D">>
sM70 == <<"-", "7", "0">>
sM80 == <<"-", "8", "0">>
sM7000 == <<"-", "7", "0", "0", "0">>
sM20000 == <<"-", "2", "0", "0", "0", "0">>

mPingD1 == Txt(sPING, sD1)
mPingd2 == Txt(sPING, sd2)
mSosD1 == Txt(sSOS, sD1)
mPingSOSD == Txt(sPING, sSOSD)
mReport2 == Txt3(sREPORT, sANCHOR_2, sM70)
mReport3 == Txt3(sREPORT, sANCHOR_3, sM80)
mReport2b == Txt3(sREPORT, sANCHOR_2, sM80)
mReport4 == Txt3(sREPORT, sANCHOR_4, sM70)
mReportWeak == Txt3(sREPORT, sANCHOR_3, sM7000)
mReportWeakest == Txt3(sREPORT, sANCHOR_2, sM20000)
mReportShort == Txt(sREPORT, sANCHOR_2)
mReportNaN == Txt3(sREPORT, sANCHOR_2, <<"x">>)
mReportLong == Txt3(sREPORT, sANCHOR_2, sM70) \o sColon \o <<"9">>
mTouristPing == Txt(<<"T", "O", "U", "R", "I", "S", "T">>, sPING)
mHello == <<"H", "E", "L", "L", "O">>

InboundMessages ==
    { mPingD1, mPingd2, mSosD1, mPingSOSD,
      mReport2, mReport3, mReport2b, mReport4, mReportWeak, mReportWeakest,
      mReportShort, mReportNaN, mReportLong, mTouristPing, mHello }

\* rssi_val = -(256 - rssi_byte) of sx126x.py:123-124, two sample values
DirectRssi == {-60, -50}

(***************************************************************************)
(* run_master: the state kept across loop iterations.                      *)
(***************************************************************************)
EmptyReadings == [a \in {} |-> 0]

\* an entry that is already there is kept
Put_KeepFirst(d, k, v) ==
    [a \in (DOMAIN d) \cup {k} |-> IF a \in DOMAIN d THEN d[a] ELSE v]

Put(d, k, v) == [a \in (DOMAIN d) \cup {k} |-> IF a = k THEN v ELSE d[a]]

NumReadings(d) == Cardinality(DOMAIN d)

\* no call of backend.send_location
NoFix == [device_id |-> None]

\* nothing printed about the computation; master.py:205
NoDiagnostic == "none"
TrilaterationFailed == "Trilateration failed"

\* no direct call of MathEngine.trilaterate
NoCall == <<>>
NotCalled == [kind |-> "not called"]

\* truthiness of current_device_id (master.py:188)
Truthy(id) == id # None /\ id # <<>>

\* master.py:131
IsDirect(msg) == Contains(msg, sPING) \/ Contains(msg, sSOS)

\* master.py:145
IsReport(msg) == ~IsDirect(msg) /\ Contains(msg, sREPORT)

\* master.py:146-152: the try block completes
ReportParses(msg) ==
    LET parts == Split(msg)
    IN Len(parts) >= 3 /\ ParseInt(parts[3]).ok

\* the ingest stores a reading
Stores(msg) == IsDirect(msg) \/ (IsReport(msg) /\ ReportParses(msg))

\* master.py:129-152, the state after the message has been handled
IngestReadings(d, msg, rssi) ==
    IF IsDirect(msg) THEN Put(d, sMASTER, rssi)
    ELSE IF IsReport(msg) /\ ReportParses(msg)
    THEN LET parts == Split(msg)
         IN Put(d, Upper(Strip(parts[2])), ParseInt(parts[3]).val)
    ELSE d

\* the device id is taken from the second field of every message
IngestDeviceId_AnyMessage(id, msg) ==
    IF Len(Split(msg)) >= 2
    THEN Upper(Strip(Split(msg)[2]))
    ELSE id

\* master.py:136-139
IngestDeviceId(id, msg) ==
    IF IsDirect(msg) /\ Len(Split(msg)) >= 2
    THEN Upper(Strip(Split(msg)[2]))
    ELSE id

IngestSos(sos, msg) == IF IsDirect(msg) THEN Contains(msg, sSOS) ELSE sos

IngestPingTime(t, msg) == IF IsDirect(msg) THEN now ELSE t

\* the time at which each entry was assigned (master.py:132, 150)
IngestTimes(times, msg) ==
    IF IsDirect(msg) THEN Put(times, sMASTER, now)
    ELSE IF IsReport(msg) /\ ReportParses(msg)
    THEN Put(times, Upper(Strip(Split(msg)[2])), now)
    ELSE times

Init ==
    /\ pc = "recv"
    /\ now = 0
    /\ current_readings = EmptyReadings
    /\ last_ping_time = 0
    /\ last_heartbeat_time = 0
    /\ current_device_id = None
    /\ is_sos = FALSE
    /\ total_positions = 0
    /\ successful_sends = 0
    /\ delivery = NoFix
    /\ script = <<>>
    /\ delivered = 0
    /\ last_ingest = 0
    /\ reading_time = EmptyReadings
    /\ attempt = 0
    /\ diagnostic = NoDiagnostic
    /\ anchors = TriangleLayout
    /\ call = NoCall
    /\ result = NotCalled

\* master.py:125-152 with a message msg heard at signal strength rssi
Ingest(msg, rssi) ==
    /\ pc = "recv"
    /\ pc' = "tri"
    /\ current_readings' = IngestReadings(current_readings, msg, rssi)
    /\ last_ping_time' = IngestPingTime(last_ping_time, msg)
    /\ current_device_id' = IngestDeviceId(current_device_id, msg)
    /\ is_sos' = IngestSos(is_sos, msg)
    /\ last_ingest' = IF Stores(msg) THEN now ELSE last_ingest
    /\ reading_time' = IngestTimes(reading_time, msg)
    /\ delivery' = NoFix
    /\ diagnostic' = NoDiagnostic
    /\ UNCHANGED <<now, last_heartbeat_time, total_positions,
                   successful_sends, attempt>>
    /\ UNCHANGED fixed

\* lora.receive() returns a packet
ReceiveMessage ==
    /\ total_positions < MaxPositions
    /\ \E msg \in InboundMessages, rssi \in DirectRssi : Ingest(msg, rssi)
    /\ UNCHANGED <<script, delivered>>

\* lora.receive() returns (None, None)
ReceiveNothing ==
    /\ pc = "recv"
    /\ pc' = "tri"
    /\ delivery' = NoFix
    /\ diagnostic' = NoDiagnostic
    /\ UNCHANGED <<now, current_readings, last_ping_time, last_heartbeat_time,
                   current_device_id, is_sos, total_positions,
                   successful_sends, script, delivered, last_ingest,
                   reading_time, attempt>>
    /\ UNCHANGED fixed

\* the anchors that have a reading, ANCHOR_2 first and MASTER last
PresentAnchors_Rotated(d) ==
    SelectSeq(<<sANCHOR_2, sANCHOR_3, sMASTER>>, LAMBDA a : a \in DOMAIN d)

\* master.py:167-177: the anchors of the canonical order that have a reading
PresentAnchors(d) == SelectSeq(RequiredAnchors, LAMBDA a : a \in DOMAIN d)

\* a reading of an anchor without a configured position is given the
\* position (5, 9)
TriInput_DefaultPosition(d) ==
    LET present == PresentAnchors(d)
        base == [i \in 1..Len(present) |->
                    [x |-> anchors[present[i]].x,
                     y |-> anchors[present[i]].y,
                     r |-> rssi_to_distance(d[present[i]])]]
        others == DOMAIN d \ Required
    IN IF others = {} THEN base
       ELSE Append(base, [x |-> 5, y |-> 9,
                          r |-> rssi_to_distance(d[CHOOSE a \in others : TRUE])])

TriInput(d) ==
    LET present == PresentAnchors(d)
    IN [i \in 1..Len(present) |->
           [x |-> anchors[present[i]].x,
            y |-> anchors[present[i]].y,
            r |-> rssi_to_distance(d[present[i]])]]

RssiValues(d) ==
    LET present == PresentAnchors(d)
    IN [i \in 1..Len(present) |-> d[present[i]]]

RECURSIVE Sum(_)
Sum(s) == IF s = <<>> THEN 0 ELSE Head(s) + Sum(Tail(s))

\* int(a / b) for b > 0: the quotient truncated towards zero
TruncDiv(a, b) == IF a >= 0 THEN a \div b ELSE 0 - ((0 - a) \div b)

\* master.py:189
RssiAvg(values) == TruncDiv(Sum(values), Len(values))

\* master.py:159
CycleComplete(d) == NumReadings(d) >= 3

\* an exception escapes the loop body (master.py:170 or 181)
TriRaises(d) ==
    \/ \E i \in 1..Len(TriInput(d)) : TriInput(d)[i].r.kind = "OverflowError"
    \/ Len(TriInput(d)) >= 3 /\ trilaterate(TriInput(d)).kind = "OverflowError"

\* trilaterate's "no solution" taken for a position
HasResult_NoneIsResult(d) ==
    Len(TriInput(d)) >= 3
        /\ trilaterate(TriInput(d)).kind \in {"point", "big", "None"}

\* master.py:180-183: a position was calculated
HasResult(d) ==
    Len(TriInput(d)) >= 3 /\ trilaterate(TriInput(d)).kind \in {"point", "big"}

\* the arguments of backend.send_location (master.py:190-196)
PositionFix(d, id, sos) ==
    [device_id |-> id,
     pos |-> trilaterate(TriInput(d)),
     rssi_avg |-> RssiAvg(RssiValues(d)),
     sos_flag |-> sos]

\* master.py:204-205: the cycle prints the failure diagnostic
PrintsFailure(d) == Len(TriInput(d)) >= 3 /\ ~HasResult(d)

\* master.py:158-211, up to the call of backend.send_location when there is
\* one (the call returns in SendLocation)
Triangulate ==
    /\ pc = "tri"
    /\ IF ~CycleComplete(current_readings)
       THEN /\ pc' = "timeout"
            /\ UNCHANGED <<current_readings, reading_time, current_device_id,
                           is_sos, total_positions, delivery, diagnostic>>
       ELSE IF TriRaises(current_readings)
       THEN /\ pc' = "crashed"
            /\ total_positions' = total_positions + 1
            /\ UNCHANGED <<current_readings, reading_time, current_device_id,
                           is_sos, delivery, diagnostic>>
       ELSE IF HasResult(current_readings) /\ Truthy(current_device_id)
       THEN /\ pc' = "send"
            /\ total_positions' = total_positions + 1
            /\ delivery' = PositionFix(current_readings, current_device_id,
                                       is_sos)
            /\ UNCHANGED <<current_readings, reading_time, current_device_id,
                           is_sos, diagnostic>>
       ELSE /\ pc' = "timeout"
            /\ total_positions' = total_positions + 1
            /\ diagnostic' = IF PrintsFailure(current_readings)
                             THEN TrilaterationFailed ELSE diagnostic
            /\ current_readings' = EmptyReadings
            /\ reading_time' = EmptyReadings
            /\ current_device_id' = None
            /\ is_sos' = FALSE
            /\ UNCHANGED delivery
    /\ UNCHANGED <<now, last_ping_time, last_heartbeat_time, successful_sends,
                   script, delivered, last_ingest, attempt>>
    /\ UNCHANGED fixed

\* what requests.post does (backend_client.py:70-96): an HTTP status or a
\* timeout after REQUEST_TIMEOUT seconds (any other status and a refused
\* connection are retried like the timeout, without the wait for the server)
Responses == {"200", "404", "401", "Timeout"}

\* seconds the attempt takes (backend_client.py:75, 98-99)
AttemptSeconds(response, n) ==
    (IF response = "Timeout" THEN REQUEST_TIMEOUT ELSE 0)
    + (IF n < RETRY_COUNT - 1 THEN RETRY_SLEEP ELSE 0)

\* the cycle's reset kept back when the delivery failed
ReadingsAfterSend_KeptOnFailure(d, success) ==
    IF success THEN EmptyReadings ELSE d

\* master.py:207: the reading set after send_location returned success
ReadingsAfterSend(d, success) == EmptyReadings

\* send_location returns (backend_client.py:80-89, 101) and the cycle ends
\* (master.py:197-211)
SendReturns(success) ==
    /\ pc' = "timeout"
    /\ attempt' = 0
    /\ successful_sends' =
           IF success THEN successful_sends + 1 ELSE successful_sends
    /\ current_readings' = ReadingsAfterSend(current_readings, success)
    /\ reading_time' = ReadingsAfterSend(reading_time, success)
    /\ current_device_id' = None
    /\ is_sos' = FALSE

\* one pass of the retry loop of send_location (backend_client.py:68-99),
\* run by the master loop itself (master.py:190)
SendLocation ==
    /\ pc = "send"
    /\ \E response \in Responses :
          IF response = "200" THEN SendReturns(TRUE) /\ now' = now
          ELSE IF response \in {"404", "401"}
          THEN SendReturns(FALSE) /\ now' = now
          ELSE /\ now + AttemptSeconds(response, attempt) <= MaxNow
               /\ now' = now + AttemptSeconds(response, attempt)
               /\ IF attempt < RETRY_COUNT - 1
                  THEN /\ attempt' = attempt + 1
                       /\ UNCHANGED <<pc, successful_sends, current_readings,
                                      reading_time, current_device_id,
                                      is_sos>>
                  ELSE SendReturns(FALSE)
    /\ UNCHANGED <<last_ping_time, last_heartbeat_time, total_positions,
                   delivery, script, delivered, last_ingest, diagnostic>>
    /\ UNCHANGED fixed

\* the timeout of master.py:214 taken for sets of two or more readings only
TimeoutExpired_NeedsTwo(t, last, d) ==
    t - last > TIMEOUT_SECONDS /\ NumReadings(d) > 1

\* master.py:214
TimeoutExpired(t, last, d) == t - last > TIMEOUT_SECONDS /\ NumReadings(d) > 0

\* master.py:222
HeartbeatDue(t, last) == t - last > HEARTBEAT_SECONDS

\* master.py:213-232: timeout handling, periodic heartbeat, sleep
TimeoutCheck ==
    /\ pc = "timeout"
    /\ pc' = "recv"
    /\ IF TimeoutExpired(now, last_ping_time, current_readings)
       THEN /\ current_readings' = EmptyReadings
            /\ reading_time' = EmptyReadings
            /\ current_device_id' = None
            /\ is_sos' = FALSE
            /\ last_ping_time' = now
       ELSE UNCHANGED <<current_readings, reading_time, current_device_id,
                        is_sos, last_ping_time>>
    /\ last_heartbeat_time' =
           IF HeartbeatDue(now, last_heartbeat_time) THEN now
           ELSE last_heartbeat_time
    /\ UNCHANGED <<now, total_positions, successful_sends, delivery, script,
                   delivered, last_ingest, attempt, diagnostic>>
    /\ UNCHANGED fixed

\* time passes while the loop sleeps or waits for the radio
Tick ==
    /\ pc = "recv"
    /\ now + TickStep <= MaxNow
    /\ now' = now + TickStep
    /\ UNCHANGED <<pc, current_readings, last_ping_time, last_heartbeat_time,
                   current_device_id, is_sos, total_positions, successful_sends,
                   delivery, script, delivered, last_ingest, reading_time,
                   attempt, diagnostic>>
    /\ UNCHANGED fixed

Next ==
    \/ ReceiveMessage
    \/ ReceiveNothing
    \/ Triangulate
    \/ SendLocation
    \/ TimeoutCheck
    \/ Tick

Spec == Init /\ [][Next]_vars

(***************************************************************************)
(* Scenarios: the radio delivers the messages of a script, in its order,   *)
(* and nothing else.  Time passes before the first and after the last      *)
(* message only, so the messages of a script arrive within the timeout of  *)
(* one another.                                                            *)
(***************************************************************************)
Packet(msg, rssi) == [msg |-> msg, rssi |-> rssi]

Permutations3(a, b, c) ==
    { <<a, b, c>>, <<a, c, b>>, <<b, a, c>>, <<b, c, a>>, <<c, a, b>>, <<c, b, a>> }

\* one cycle of device D1: the direct signal and the reports of both relays,
\* in every arrival order
OrderScripts ==
    UNION { Permutations3(Packet(direct, rssi), Packet(r2, -40), Packet(mReport3, -40)) :
              <<direct, rssi, r2>> \in {mPingD1, mSosD1} \X DirectRssi \X {mReport2, mReport2b} }

\* PING:<D>, then the report of ANCHOR_2, then the report of ANCHOR_3
E2EScripts ==
    { <<Packet(Txt(sPING, id), rssi), Packet(r2, -40), Packet(mReport3, -40)>> :
          <<id, rssi, r2>> \in {sD1, sSOSD} \X DirectRssi \X {mReport2, mReport2b} }

\* the master starts at a deployment with one of the layouts, the radio
\* about to play one of the scripts
InitDeployed(scripts, layouts) ==
    /\ pc = "recv"
    /\ now = 0
    /\ current_readings = EmptyReadings
    /\ last_ping_time = 0
    /\ last_heartbeat_time = 0
    /\ current_device_id = None
    /\ is_sos = FALSE
    /\ total_positions = 0
    /\ successful_sends = 0
    /\ delivery = NoFix
    /\ script \in scripts
    /\ delivered = 0
    /\ last_ingest = 0
    /\ reading_time = EmptyReadings
    /\ attempt = 0
    /\ diagnostic = NoDiagnostic
    /\ anchors \in layouts
    /\ call = NoCall
    /\ result = NotCalled

InitScripted(scripts) == InitDeployed(scripts, {TriangleLayout})

\* lora.receive() returns the next packet of the script
ReceiveScripted ==
    /\ delivered < Len(script)
    /\ Ingest(script[delivered + 1].msg, script[delivered + 1].rssi)
    /\ delivered' = delivered + 1
    /\ UNCHANGED script

TickScripted ==
    /\ delivered \in {0, Len(script)}
    /\ Tick

NextScripted ==
    \/ ReceiveScripted
    \/ ReceiveNothing
    \/ Triangulate
    \/ SendLocation
    \/ TimeoutCheck
    \/ TickScripted

SpecOrder == InitScripted(OrderScripts) /\ [][NextScripted]_vars

SpecE2E == InitScripted(E2EScripts) /\ [][NextScripted]_vars

(***************************************************************************)
(* Start of run_master (master.py:84-97): the anchors file is loaded and   *)
(* validated before the loop is entered.                                   *)
(***************************************************************************)
\* an anchors.json with a fourth anchor
FullLayout ==
    [a \in Required \cup {sANCHOR_4} |->
        IF a = sANCHOR_4 THEN [x |-> 0, y |-> 9] ELSE TriangleLayout[a]]

\* what get_anchors() can return: every selection of the four entries, the
\* empty dict of a missing file included (settings.py:52-62)
Configs ==
    { [a \in S |-> FullLayout[a]] : S \in SUBSET (Required \cup {sANCHOR_4}) }

\* no anchor is ever missing
MissingAnchors_Unchecked(cfg) == {}

\* master.py:94
MissingAnchors(cfg) == {a \in Required : a \notin DOMAIN cfg}

\* master.py:85-97
Startup ==
    /\ pc = "start"
    /\ pc' = IF DOMAIN anchors = {} \/ MissingAnchors(anchors) # {}
             THEN "returned" ELSE "recv"
    /\ UNCHANGED <<now, current_readings, last_ping_time, last_heartbeat_time,
                   current_device_id, is_sos, total_positions,
                   successful_sends, delivery, script, delivered, last_ingest,
                   reading_time,
                   attempt, diagnostic>>
    /\ UNCHANGED fixed

InitStartup ==
    /\ pc = "start"
    /\ now = 0
    /\ current_readings = EmptyReadings
    /\ last_ping_time = 0
    /\ last_heartbeat_time = 0
    /\ current_device_id = None
    /\ is_sos = FALSE
    /\ total_positions = 0
    /\ successful_sends = 0
    /\ delivery = NoFix
    /\ script \in E2EScripts
    /\ delivered = 0
    /\ last_ingest = 0
    /\ reading_time = EmptyReadings
    /\ attempt = 0
    /\ diagnostic = NoDiagnostic
    /\ anchors \in Configs
    /\ call = NoCall
    /\ result = NotCalled

SpecStartup == InitStartup /\ [][Startup \/ NextScripted]_vars

(***************************************************************************)
(* Direct calls of MathEngine.trilaterate: three anchors on one line with  *)
(* radii the distance estimator returns, and three anchors around a point  *)
(* with the exact distances to it as radii.                                *)
(***************************************************************************)
Tuple(p, r) == [x |-> p[1], y |-> p[2], r |-> r]

\* a radius given in centimetres
Radius(cm) == [kind |-> "float", cm |-> cm, num |-> 0]

LinePoints == {<<x, y>> : x \in {0, 3, 6}, y \in {0, 4, 8}}

Collinear(p1, p2, p3) ==
    (p2[1] - p1[1]) * (p3[2] - p1[2]) = (p2[2] - p1[2]) * (p3[1] - p1[1])

SampleRadii == {rssi_to_distance(r) : r \in {-40, -60, -7000}}

CollinearCalls ==
    { <<Tuple(ps[1], rs[1]), Tuple(ps[2], rs[2]), Tuple(ps[3], rs[3])>> :
        <<ps, rs>> \in
            {q \in LinePoints \X LinePoints \X LinePoints :
                 Collinear(q[1], q[2], q[3])}
            \X (SampleRadii \X SampleRadii \X SampleRadii) }

\* the points to locate, and offsets of whole-centimetre length
TruePoints == {<<0, 0>>, <<2, 3>>}

Offsets ==
    { [dx |-> 3, dy |-> 4, cm |-> 500], [dx |-> -4, dy |-> 3, cm |-> 500],
      [dx |-> 0, dy |-> -5, cm |-> 500], [dx |-> 5, dy |-> 0, cm |-> 500],
      [dx |-> 6, dy |-> 8, cm |-> 1000], [dx |-> -8, dy |-> -6, cm |-> 1000],
      [dx |-> 0, dy |-> 10, cm |-> 1000] }

AnchorAt(p, o) == Tuple(<<p[1] + o.dx, p[2] + o.dy>>, Radius(o.cm))

CallPoints(c) == [i \in 1..3 |-> <<c[i].x, c[i].y>>]

CallCollinear(c) ==
    Collinear(CallPoints(c)[1], CallPoints(c)[2], CallPoints(c)[3])

ExactCalls ==
    { c \in { <<AnchorAt(p, os[1]), AnchorAt(p, os[2]), AnchorAt(p, os[3])>> :
                 <<p, os>> \in TruePoints \X (Offsets \X Offsets \X Offsets) } :
        ~CallCollinear(c) }

InitCalls ==
    /\ pc = "recv"
    /\ now = 0
    /\ current_readings = EmptyReadings
    /\ last_ping_time = 0
    /\ last_heartbeat_time = 0
    /\ current_device_id = None
    /\ is_sos = FALSE
    /\ total_positions = 0
    /\ successful_sends = 0
    /\ delivery = NoFix
    /\ script = <<>>
    /\ delivered = 0
    /\ last_ingest = 0
    /\ reading_time = EmptyReadings
    /\ attempt = 0
    /\ diagnostic = NoDiagnostic
    /\ anchors = TriangleLayout
    /\ call \in CollinearCalls \cup ExactCalls
    /\ result = NotCalled

\* MathEngine.trilaterate(call)
CallTrilaterate ==
    /\ result = NotCalled
    /\ call # NoCall
    /\ result' = trilaterate(call)
    /\ UNCHANGED <<pc, now, current_readings, last_ping_time,
                   last_heartbeat_time, current_device_id, is_sos,
                   total_positions, successful_sends, delivery, script,
                   delivered, last_ingest, reading_time, attempt, diagnostic,
                   anchors, call>>

SpecTrilaterate == InitCalls /\ [][CallTrilaterate]_vars

\* the master idle, and one of the calls about to be made
InitCallOf(calls) ==
    /\ pc = "recv"
    /\ now = 0
    /\ current_readings = EmptyReadings
    /\ last_ping_time = 0
    /\ last_heartbeat_time = 0
    /\ current_device_id = None
    /\ is_sos = FALSE
    /\ total_positions = 0
    /\ successful_sends = 0
    /\ delivery = NoFix
    /\ script = <<>>
    /\ delivered = 0
    /\ last_ingest = 0
    /\ reading_time = EmptyReadings
    /\ attempt = 0
    /\ diagnostic = NoDiagnostic
    /\ anchors = TriangleLayout
    /\ call \in calls
    /\ result = NotCalled

(***************************************************************************)
(* Direct calls of MathEngine.rssi_to_distance, two at a time: the signal  *)
(* strengths a radio reports, stronger ones, and weak ones up to the       *)
(* values at which the powers of the function and of its caller overflow.  *)
(***************************************************************************)
RssiSamples ==
    ((0 - WeakestSample)..StrongestSample)
        \cup {-6205, -6206, -12370, -12371, -20000}

DistanceCalls == {c \in RssiSamples \X RssiSamples : c[1] <= c[2]}

\* MathEngine.rssi_to_distance(call[1]), MathEngine.rssi_to_distance(call[2])
CallRssiToDistance ==
    /\ result = NotCalled
    /\ result' = <<rssi_to_distance(call[1]), rssi_to_distance(call[2])>>
    /\ UNCHANGED <<master, call>>

SpecDistance == InitCallOf(DistanceCalls) /\ [][CallRssiToDistance]_vars

(***************************************************************************)
(* The relay node (src/nodes/relay.py, run_relay): one iteration of its    *)
(* loop on what node.receive() returned, and the master's ingest of the    *)
(* report it transmits.                                                    *)
(***************************************************************************)
DEFAULT_RELAY_ID == sANCHOR_2

\* relay.py:28-29
RelayId(arg) ==
    Upper(IF arg = None \/ arg = <<>> THEN DEFAULT_RELAY_ID ELSE arg)

\* relay.py:69, 73
RelayResponds(message) ==
    /\ message # None
    /\ message # <<>>
    /\ Contains(message, sPING) \/ Contains(message, sSOS)

\* relay.py:78-80, in milliseconds
RelayDelay(relay_id) ==
    IF relay_id = sANCHOR_3 THEN REPORT_DELAY_MS * 2 ELSE REPORT_DELAY_MS

\* relay.py:86
BuildReport(relay_id, rssi) ==
    sREPORT \o sColon \o relay_id \o sColon \o FormatInt(rssi)

\* relay.py:69-96: what the relay transmits, and how long after it heard
\* the message
RelayHandle(relay_id, message, rssi) ==
    IF RelayResponds(message)
    THEN [sent |-> <<BuildReport(relay_id, rssi)>>,
          delay |-> RelayDelay(relay_id)]
    ELSE [sent |-> <<>>, delay |-> 0]

\* the --id argument of a relay (relay.py:129)
sanchor_3 == <<"a", "n", "c", "h", "o", "r", "_", "3">>
sSOS_2 == <<"S", "O", "S", "_", "2">>
RelayArgs == {None, sANCHOR_2, sANCHOR_3, sanchor_3, sANCHOR_4, sSOS_2}

\* rssi_val = -(256 - rssi_byte) of sx126x.py:123-124
RelayRssi == {-256, -70, -1}

\* what a relay can hear: the traffic the master hears, nothing, an empty
\* text, and the reports of the other relays
RelayMessages ==
    InboundMessages \cup {None, <<>>}
        \cup {BuildReport(RelayId(arg), -70) : arg \in RelayArgs}

\* two relays hear the same message at the same time
RelayCalls ==
    [relay_id : RelayArgs, other_id : RelayArgs,
     message : RelayMessages, rssi : RelayRssi]

\* the master has heard SOS:D1 and waits for the reports
InitRelays ==
    /\ pc = "recv"
    /\ now = 0
    /\ current_readings = Put(EmptyReadings, sMASTER, -60)
    /\ last_ping_time = 0
    /\ last_heartbeat_time = 0
    /\ current_device_id = sD1
    /\ is_sos = TRUE
    /\ total_positions = 0
    /\ successful_sends = 0
    /\ delivery = NoFix
    /\ script = <<>>
    /\ delivered = 0
    /\ last_ingest = 0
    /\ reading_time = Put(EmptyReadings, sMASTER, 0)
    /\ attempt = 0
    /\ diagnostic = NoDiagnostic
    /\ anchors = TriangleLayout
    /\ call \in RelayCalls
    /\ result = NotCalled

\* one iteration of the loop of both relays (relay.py:60-99)
RelaysHear ==
    /\ result = NotCalled
    /\ result' = [mine |-> RelayHandle(RelayId(call.relay_id),
                                       call.message, call.rssi),
                  other |-> RelayHandle(RelayId(call.other_id),
                                        call.message, call.rssi)]
    /\ UNCHANGED <<master, call>>

\* the master receives the report of the first relay (master.py:125-152)
IngestReport ==
    /\ result # NotCalled
    /\ result.mine.sent # <<>>
    /\ \E link \in DirectRssi : Ingest(result.mine.sent[1], link)
    /\ UNCHANGED <<script, delivered>>

SpecRelay == InitRelays /\ [][RelaysHear \/ IngestReport]_vars

(***************************************************************************)
(* Direct calls of BackendClient.send_location                             *)
(* (src/utils/backend_client.py): the call is given what requests.post     *)
(* does at each attempt and runs the retry loop one pass at a time.        *)
(***************************************************************************)
PostOutcomes ==
    {"200", "404", "401", "500", "Timeout", "ConnectionError", "Exception"}

SendCalls == [1..RETRY_COUNT -> PostOutcomes]

\* the call before its first attempt
Started == [attempts |-> 0, slept |-> 0, returned |-> "running"]

Progress == IF result = NotCalled THEN Started ELSE result

\* 401 is retried
Permanent_Only404(response) == response = "404"

\* backend_client.py:81-87: the statuses that end the call with False
Permanent(response) == response \in {"404", "401"}

\* the retry loop goes on after its last pass
MorePasses_Always(n) == TRUE

\* backend_client.py:99-100: the pass that has made attempt n is not the last
MorePasses(n) == n < RETRY_COUNT

\* one pass of `for attempt in range(self.retry_count)`
\* (backend_client.py:68-101)
PostAttempt ==
    /\ Progress.returned = "running"
    /\ Progress.attempts < Len(call)
    /\ LET n == Progress.attempts + 1
           response == call[n]
       IN result' =
            IF response = "200"
            THEN [attempts |-> n, slept |-> Progress.slept, returned |-> "True"]
            ELSE IF Permanent(response)
            THEN [attempts |-> n, slept |-> Progress.slept, returned |-> "False"]
            ELSE IF MorePasses(n)
            THEN [attempts |-> n, slept |-> Progress.slept + RETRY_SLEEP,
                  returned |-> "running"]
            ELSE [attempts |-> n, slept |-> Progress.slept, returned |-> "False"]
    /\ UNCHANGED <<master, call>>

SpecBackend == InitCallOf(SendCalls) /\ [][PostAttempt]_vars

\* every order of a finite set of packets
Orders(S) ==
    { f \in [1..Cardinality(S) -> S] :
        \A i, j \in 1..Cardinality(S) : i # j => f[i] # f[j] }

\* one cycle in which the device is heard twice by the master and twice by
\* ANCHOR_2, in every order, completed by the report of ANCHOR_3
RepeatScripts ==
    UNION { { o \o <<Packet(mReport3, -40)>> :
                o \in Orders({Packet(d1, -60), Packet(d2, -50),
                              Packet(mReport2, -40), Packet(mReport2b, -40)}) } :
              <<d1, d2>> \in {mPingD1, mSosD1} \X {mPingd2, mPingSOSD} }

SpecRepeat == InitScripted(RepeatScripts) /\ [][NextScripted]_vars

\* the device, both relays and an anchor that is not configured, in every
\* order
UnconfiguredScripts ==
    UNION { Orders({Packet(direct, -60), Packet(mReport2, -40),
                    Packet(mReport3, -40), Packet(mReport4, -40)}) :
              direct \in {mPingD1, mSosD1} }

SpecUnconfigured == InitScripted(UnconfiguredScripts) /\ [][NextScripted]_vars

\* one cycle in every arrival order, at a sound and at two faulty deployments
SpecLayouts ==
    InitDeployed(OrderScripts, {TriangleLayout} \cup LineLayouts)
        /\ [][NextScripted]_vars

\* the reading set the messages of a script amount to
RECURSIVE ScriptReadings(_)
ScriptReadings(sc) ==
    IF sc = <<>> THEN EmptyReadings
    ELSE IngestReadings(ScriptReadings(SubSeq(sc, 1, Len(sc) - 1)),
                        sc[Len(sc)].msg, sc[Len(sc)].rssi)

(***************************************************************************)
(* The tourist device in SOS test mode (src/nodes/tourist.py:114-154).     *)
(* call holds DEVICE_ID and whether a radio is attached; result holds the  *)
(* loop's counter, the messages built, the messages handed to the radio    *)
(* and the seconds slept.                                                  *)
(***************************************************************************)
sDEV001 == <<"D", "E", "V", "0", "0", "1">>

\* tourist.py:17: the default and other settings of the environment
DeviceIds == {sDEV001, sD1, sSOSD}

\* tourist.py:128-131: node is None off the Raspberry Pi
TouristCalls == [device_id : DeviceIds, node : BOOLEAN]

\* tourist.py:134
TouristStarted ==
    [ping_count |-> 0, built |-> <<>>, sent |-> <<>>, slept |-> 0]

TouristState == IF result = NotCalled THEN TouristStarted ELSE result

\* every ping from the fifth on is an SOS
IsSosPing_FromFive(k) == 5 <= k

\* tourist.py:139
IsSosPing(k) == 5 <= k /\ k <= 7

\* tourist.py:141-146
TouristMessage(k, device_id) ==
    IF IsSosPing(k) THEN sSOS \o sColon \o device_id
                    ELSE sPING \o sColon \o device_id

\* tourist.py:138-151: one pass of the loop
TouristPing ==
    /\ call \in TouristCalls
    /\ TouristState.ping_count < MaxPings
    /\ LET st == TouristState
           k == st.ping_count + 1
           message == TouristMessage(k, call.device_id)
       IN  result' = [ping_count |-> k,
                      built |-> Append(st.built, message),
                      sent |-> IF call.node THEN Append(st.sent, message)
                                            ELSE st.sent,
                      slept |-> st.slept + PING_INTERVAL]
    /\ UNCHANGED <<master, call>>

SpecTourist == InitCallOf(TouristCalls) /\ [][TouristPing]_vars

(***************************************************************************)
(* A device that keeps pinging while relay reports are lost or late: the   *)
(* loop runs without a packet at least every IdleStep seconds, so the      *)
(* timeout of master.py:214 is tested before more time than that passes.   *)
(***************************************************************************)
\* four packets, each the ping of D1 or the report of a relay
StaleScripts ==
    [1..4 -> {Packet(mPingD1, -60), Packet(mReport2, -40),
              Packet(mReport3, -40)}]

\* master.py:123-232 with lora.receive() returning (None, None), IdleStep
\* seconds after the iteration before: nothing is stored, no cycle is
\* complete, and the timeout and the heartbeat are tested at the new time
IdleIteration ==
    /\ pc = "recv"
    /\ now + IdleStep <= MaxNow
    /\ now' = now + IdleStep
    /\ IF TimeoutExpired(now', last_ping_time, current_readings)
       THEN /\ current_readings' = EmptyReadings
            /\ reading_time' = EmptyReadings
            /\ current_device_id' = None
            /\ is_sos' = FALSE
            /\ last_ping_time' = now'
       ELSE UNCHANGED <<current_readings, reading_time, current_device_id,
                        is_sos, last_ping_time>>
    /\ last_heartbeat_time' =
           IF HeartbeatDue(now', last_heartbeat_time) THEN now'
           ELSE last_heartbeat_time
    /\ delivery' = NoFix
    /\ diagnostic' = NoDiagnostic
    /\ UNCHANGED <<pc, total_positions, successful_sends, script, delivered,
                   last_ingest, attempt>>
    /\ UNCHANGED fixed

NextStale ==
    \/ ReceiveScripted
    \/ IdleIteration
    \/ Triangulate
    \/ SendLocation
    \/ TimeoutCheck

SpecStale == InitScripted(StaleScripts) /\ [][NextStale]_vars

(***************************************************************************)
(* Two tourist devices ping during the same cycle.  The master hears each  *)
(* ping directly and each relay answers each ping with a report that names *)
(* the relay and the signal strength only (relay.py:84-91).  A packet of   *)
(* these scripts also records the device whose ping caused it, which is    *)
(* not part of what is transmitted.                                        *)
(***************************************************************************)
CausedPacket(msg, rssi, cause) == [msg |-> msg, rssi |-> rssi, cause |-> cause]

\* what reaches the master after device id pinged: the ping itself, then the
\* report of ANCHOR_2 (after 0.5 s) and the report of ANCHOR_3 (after 1 s)
PingTraffic(id, direct, at2, at3) ==
    << CausedPacket(Txt(sPING, id), direct, Upper(Strip(id))),
       CausedPacket(BuildReport(sANCHOR_2, at2), -40, Upper(Strip(id))),
       CausedPacket(BuildReport(sANCHOR_3, at3), -40, Upper(Strip(id))) >>

\* every way the packets of two senders can follow one another on the air
RECURSIVE Interleavings(_, _)
Interleavings(s, t) ==
    IF s = <<>> THEN {t}
    ELSE IF t = <<>> THEN {s}
    ELSE { <<Head(s)>> \o r : r \in Interleavings(Tail(s), t) }
         \cup { <<Head(t)>> \o r : r \in Interleavings(s, Tail(t)) }

TwoDeviceScripts ==
    Interleavings(PingTraffic(sD1, -60, -70, -80),
                  PingTraffic(sd2, -50, -80, -70))

NextTwoDevices ==
    \/ ReceiveScripted
    \/ Triangulate
    \/ SendLocation
    \/ TimeoutCheck

SpecTwoDevices == InitScripted(TwoDeviceScripts) /\ [][NextTwoDevices]_vars

(***************************************************************************)
(* The kinds of message of the radio protocol.                             *)
(***************************************************************************)
Fields(msg) == Split(msg)
IsPingKind(msg) == Len(Fields(msg)) = 2 /\ Fields(msg)[1] = sPING
IsSosKind(msg) == Len(Fields(msg)) = 2 /\ Fields(msg)[1] = sSOS
IsDirectKind(msg) == IsPingKind(msg) \/ IsSosKind(msg)
IsReportKind(msg) == Fields(msg)[1] = sREPORT
WellFormedReport(msg) ==
    IsReportKind(msg) /\ Len(Fields(msg)) = 3 /\ ParseInt(Fields(msg)[3]).ok
MalformedReport(msg) == IsReportKind(msg) /\ ~WellFormedReport(msg)
UnknownAnchorReport(msg) ==
    WellFormedReport(msg) /\ Upper(Strip(Fields(msg)[2])) \notin Required
Unrecognised(msg) == ~IsDirectKind(msg) /\ ~IsReportKind(msg)

(***************************************************************************)
(* Claims.                                                                 *)
(***************************************************************************)

\* C1: once the three readings of a cycle (direct signal, report of
\* ANCHOR_2, report of ANCHOR_3) have arrived, in whatever order, the master
\* is either about to compute from exactly those three readings, is
\* delivering the fix computed from them, or has computed exactly once and
\* holds an empty reading set, no device id and sos false.
C1_AnyOrderCompletes ==
    delivered = 3 =>
        \/ /\ pc = "tri"
           /\ total_positions = 0
           /\ current_readings = ScriptReadings(script)
        \/ /\ pc = "send"
           /\ total_positions = 1
           /\ current_readings = ScriptReadings(script)
        \/ /\ pc \notin {"tri", "send"}
           /\ total_positions = 1
           /\ current_readings = EmptyReadings
           /\ current_device_id = None
           /\ is_sos = FALSE

\* C2: from an empty reading set, PING:<D>, REPORT of ANCHOR_2, REPORT of
\* ANCHOR_3 make the master hand over exactly one PositionFix, with device
\* id D and sos = false: the computation that follows the third message
\* hands it over, and no other step hands over a fix.
C2_EndToEndOneFix ==
    [][ /\ (pc = "tri" /\ delivered = 3 /\ total_positions = 0)
            => /\ delivery' # NoFix
               /\ delivery'.device_id = Fields(script[1].msg)[2]
               /\ delivery'.sos_flag = FALSE
        /\ (delivery' # NoFix /\ delivery' # delivery)
            => (pc = "tri" /\ delivered = 3 /\ total_positions = 0) ]_vars

\* C3: the timeout check discards a partial reading set only when more than
\* the timeout has elapsed since the latest successfully ingested message.
C3_TimeoutSinceLatestIngest ==
    [][ (pc = "timeout" /\ NumReadings(current_readings) > 0
                        /\ current_readings' = EmptyReadings)
            => now - last_ingest > TIMEOUT_SECONDS ]_vars

\* C4: a partial reading set (1 or 2 anchors) with nothing ingested for
\* longer than the timeout is reset by the next timeout check: readings,
\* device id and sos flag are discarded and no PositionFix is produced.
C4_StalePartialDiscarded ==
    [][ (pc = "timeout" /\ NumReadings(current_readings) \in {1, 2}
                        /\ now - last_ingest > TIMEOUT_SECONDS)
            => /\ current_readings' = EmptyReadings
               /\ current_device_id' = None
               /\ is_sos' = FALSE
               /\ delivery' = NoFix
               /\ total_positions' = total_positions ]_vars

\* C4 witness: the timeout has just discarded readings that were ingested
\* more than the timeout before (only the timeout sets last_ping_time to
\* the present without an ingest at the present).
C4_Witness ==
    /\ pc = "recv"
    /\ current_readings = EmptyReadings
    /\ last_ping_time = now
    /\ now - last_ingest > TIMEOUT_SECONDS
    /\ total_positions = 0

\* C5: the master triggers the computation and drains the reading set if and
\* only if the set has an entry for each of MASTER, ANCHOR_2 and ANCHOR_3.
C5_CompleteIffAllThree ==
    [][ pc = "tri" =>
           ((total_positions' = total_positions + 1)
               <=> Required \subseteq DOMAIN current_readings) ]_vars

\* C6: a well-formed REPORT of an anchor that is not configured adds no
\* entry to the reading set.
C6_UnknownAnchorDropped ==
    [][ \A msg \in InboundMessages, rssi \in DirectRssi :
           (UnknownAnchorReport(msg) /\ Ingest(msg, rssi))
               => current_readings' = current_readings ]_vars

\* C7: a malformed REPORT (field count other than three, or an rssi that is
\* not an integer) leaves reading set, device id and sos flag as they were.
C7_MalformedReportNoChange ==
    [][ \A msg \in InboundMessages, rssi \in DirectRssi :
           (MalformedReport(msg) /\ Ingest(msg, rssi))
               => UNCHANGED <<current_readings, current_device_id, is_sos>> ]_vars

\* C8: a message of none of the three kinds leaves reading set, device id,
\* sos flag and last-activity timestamp unchanged.
C8_UnrecognisedIgnored ==
    [][ \A msg \in InboundMessages, rssi \in DirectRssi :
           (Unrecognised(msg) /\ Ingest(msg, rssi))
               => UNCHANGED <<current_readings, current_device_id, is_sos,
                              last_ping_time>> ]_vars

\* C9: after a direct locate signal is ingested, sos is true exactly when
\* the message is SOS:<device_id>; PING:<device_id> records sos = false.
C9_SosIffSosKind ==
    [][ \A msg \in InboundMessages, rssi \in DirectRssi :
           (IsDirectKind(msg) /\ Ingest(msg, rssi))
               => (is_sos' <=> IsSosKind(msg)) ]_vars

\* C10: no sequence of inbound messages terminates the master loop with an
\* unhandled error.
C10_LoopNeverCrashes == pc # "crashed"

\* send_location has not returned yet (master.py:190, backend_client.py:68)
DeliveryInProgress == pc = "send"

\* the loop can take a step of its own: receive, compute or check the timeout
LoopCanStep == ENABLED (ReceiveMessage \/ ReceiveNothing \/ TimeoutCheck)

\* C11: while the delivery of a fix to the backend is in progress, retries
\* and waits included, the master loop goes on receiving radio messages
\* and running timeout checks.
C11_DeliveryDoesNotBlockLoop == DeliveryInProgress => LoopCanStep

\* C12: when send_location returns, with success or with failure, the
\* cycle ends in the same aggregation state (empty reading set, no device
\* id, sos false) and with the same count of positions; the outcome shows
\* in successful_sends only.
C12_SendOutcomeLeavesAggregation ==
    [][ (pc = "send" /\ pc' # "send")
            => /\ pc' = "timeout"
               /\ current_readings' = EmptyReadings
               /\ current_device_id' = None
               /\ is_sos' = FALSE
               /\ total_positions' = total_positions
               /\ successful_sends' \in
                      {successful_sends, successful_sends + 1} ]_vars

\* C12 witness: the first cycle handed over a fix, send_location returned
\* failure and the cycle has been reset.
C12_Witness ==
    /\ pc = "timeout"
    /\ delivery # NoFix
    /\ total_positions = 1
    /\ successful_sends = 0
    /\ current_readings = EmptyReadings

\* C13: when the trilateration of a complete reading set returns no
\* solution, the cycle hands over no PositionFix, prints the failure
\* diagnostic and resets reading set, device id and sos flag.
C13_NoSolutionResets ==
    [][ ( /\ pc = "tri"
          /\ CycleComplete(current_readings)
          /\ ~TriRaises(current_readings)
          /\ Len(TriInput(current_readings)) >= 3
          /\ trilaterate(TriInput(current_readings)).kind = "None" )
            => /\ pc' = "timeout"
               /\ delivery' = NoFix
               /\ diagnostic' = TrilaterationFailed
               /\ current_readings' = EmptyReadings
               /\ current_device_id' = None
               /\ is_sos' = FALSE ]_vars

\* C13 witness: at a deployment with the anchors on one line the first
\* complete cycle has failed and has been reset.
C13_Witness ==
    /\ anchors \in LineLayouts
    /\ pc = "timeout"
    /\ total_positions = 1
    /\ diagnostic = TrilaterationFailed
    /\ delivery = NoFix
    /\ current_readings = EmptyReadings

\* C14: trilaterate returns no solution for every three anchors on one
\* line, whatever the three radii.
C14_CollinearNoSolution ==
    (result # NotCalled /\ CallCollinear(call)) => result.kind = "None"

\* the radii of the call are the exact distances from p to the anchors
ExactAt(c, p) ==
    \A i \in 1..3 :
        /\ c[i].r.kind = "float"
        /\ c[i].r.cm * c[i].r.cm
               = 10000 * ((c[i].x - p[1]) * (c[i].x - p[1])
                          + (c[i].y - p[2]) * (c[i].y - p[2]))

\* circle i minus circle j, as a linear equation in the point (x, y) given
\* in centimetres
OnRadicalLine(c, i, j, x, y) ==
    200 * (c[j].x - c[i].x) * x + 200 * (c[j].y - c[i].y) * y
        = c[i].r.cm * c[i].r.cm - c[j].r.cm * c[j].r.cm
          + 10000 * (c[j].x * c[j].x - c[i].x * c[i].x
                     + c[j].y * c[j].y - c[i].y * c[i].y)

\* C20: for three anchors not on one line and radii that are the exact
\* distances from a point P, trilaterate returns P, and the returned x and
\* y satisfy both linear equations obtained by subtracting the circle
\* equations pairwise.
C20_ExactRadiiGivePoint ==
    \A p \in TruePoints :
        (result # NotCalled /\ ~CallCollinear(call) /\ ExactAt(call, p))
            => /\ result.kind = "point"
               /\ result.x = 100 * p[1]
               /\ result.y = 100 * p[2]
               /\ OnRadicalLine(call, 1, 2, result.x, result.y)
               /\ OnRadicalLine(call, 2, 3, result.x, result.y)

\* C20 witness: a call with exact radii around (2, 3) has returned.
C20_Witness ==
    /\ result # NotCalled
    /\ ~CallCollinear(call)
    /\ ExactAt(call, <<2, 3>>)
    /\ result.kind = "point"
    /\ result.x = 200
    /\ result.y = 300

\* the arithmetic mean of the three raw readings, to the nearest integer
NearestMean(d) ==
    RoundDiv(d[sMASTER] + d[sANCHOR_2] + d[sANCHOR_3], 3)

\* C15: the average rssi sent with a PositionFix is the arithmetic mean of
\* the three raw RSSI values of the cycle rounded to the nearest integer.
C15_AverageRssiRounded ==
    pc = "send" => delivery.rssi_avg = NearestMean(current_readings)

\* the messages received so far
Heard == SubSeq(script, 1, delivered)

\* the anchor a packet is a reading of, and the reading
AnchorOf(pk) ==
    IF IsDirectKind(pk.msg) THEN sMASTER ELSE Upper(Strip(Fields(pk.msg)[2]))
ValueOf(pk) ==
    IF IsDirectKind(pk.msg) THEN pk.rssi ELSE ParseInt(Fields(pk.msg)[3]).val

\* the latest packet of a sequence that satisfies Test
Latest(sc, Test(_)) ==
    sc[CHOOSE i \in 1..Len(sc) :
          /\ Test(sc[i])
          /\ \A j \in (i + 1)..Len(sc) : ~Test(sc[j])]

LatestReadings(sc) ==
    [a \in Required |-> ValueOf(Latest(sc, LAMBDA pk : AnchorOf(pk) = a))]

\* C16: the reading set holds one entry per anchor, and when an anchor has
\* reported more than once in the cycle the computation uses the value of
\* its latest message.
C16_LastWriterWins ==
    pc = "send" =>
        /\ DOMAIN current_readings = Required
        /\ current_readings = LatestReadings(Heard)
        /\ delivery.pos = trilaterate(TriInput(LatestReadings(Heard)))

\* C16 witness: ANCHOR_2 reported -70 and later -80, the master heard the
\* device at -50 and later at -60, and the fix is computed from -80 and -60.
C16_Witness ==
    /\ pc = "send"
    /\ \E i, j \in 1..delivered :
          /\ i < j
          /\ script[i].msg = mReport2
          /\ script[j].msg = mReport2b
    /\ \E i, j \in 1..delivered :
          /\ i < j
          /\ script[i].rssi = -50
          /\ script[j].rssi = -60
    /\ current_readings[sANCHOR_2] = -80
    /\ current_readings[sMASTER] = -60

\* the latest direct locate signal received
LastDirect == Latest(Heard, LAMBDA pk : IsDirectKind(pk.msg))

\* C17: when several direct locate signals are ingested in one cycle, the
\* PositionFix carries the device id and the sos flag of the most recent
\* one.
C17_LatestDirectSignalWins ==
    pc = "send" =>
        /\ delivery.device_id = Upper(Strip(Fields(LastDirect.msg)[2]))
        /\ delivery.sos_flag = IsSosKind(LastDirect.msg)

\* the three tuples in the order MASTER, ANCHOR_2, ANCHOR_3
CanonicalInput(d) ==
    [i \in 1..3 |-> Tuple(<<anchors[RequiredAnchors[i]].x,
                            anchors[RequiredAnchors[i]].y>>,
                          rssi_to_distance(d[RequiredAnchors[i]]))]

\* C18: the tuples passed to the trilaterator are in the order MASTER,
\* ANCHOR_2, ANCHOR_3, and the position of a cycle is the one computed in
\* that order from its three readings, whatever the order in which the
\* messages arrived.
C18_CanonicalOrder ==
    pc = "send" =>
        /\ TriInput(current_readings) = CanonicalInput(current_readings)
        /\ delivery.pos = trilaterate(CanonicalInput(ScriptReadings(script)))

\* C18 witness: a cycle whose messages arrived in the order opposite to the
\* canonical one (report of ANCHOR_3, report of ANCHOR_2, direct signal)
\* has computed its position.
C18_Witness ==
    /\ pc = "send"
    /\ AnchorOf(script[1]) = sANCHOR_3
    /\ AnchorOf(script[2]) = sANCHOR_2
    /\ AnchorOf(script[3]) = sMASTER
    /\ delivery.pos.kind = "point"

\* the reading set holds a reading of an anchor that is not configured
HasUnconfigured(d) == DOMAIN d \ Required # {}

\* C19: a reading of an anchor without a configured position contributes
\* nothing to the computation, and no PositionFix comes from fewer than
\* three usable tuples: a complete set with such a reading ends the cycle
\* without a position, and every fix is computed from the readings of
\* MASTER, ANCHOR_2 and ANCHOR_3 alone.
C19_UnconfiguredAnchorExcluded ==
    [][ pc = "tri" =>
          /\ (CycleComplete(current_readings)
                  /\ HasUnconfigured(current_readings))
                => /\ pc' = "timeout"
                   /\ delivery' = NoFix
                   /\ total_positions' = total_positions + 1
                   /\ current_readings' = EmptyReadings
                   /\ current_device_id' = None
                   /\ is_sos' = FALSE
          /\ (pc' = "send")
                => /\ Required \subseteq DOMAIN current_readings
                   /\ delivery'.pos
                         = trilaterate(CanonicalInput(current_readings)) ]_vars

\* C19 witness: the direct signal, the report of ANCHOR_2 and the report of
\* the unconfigured ANCHOR_4 made a complete set; the cycle has ended
\* without a fix, before ANCHOR_3 was heard.
C19_Witness ==
    /\ delivered = 3
    /\ \E i \in 1..3 : script[i].msg = mReport4
    /\ script[4].msg = mReport3
    /\ pc = "timeout"
    /\ total_positions = 1
    /\ delivery = NoFix
    /\ current_readings = EmptyReadings

\* C21: for every rssi greater than -10 the distance is the distance of
\* rssi = -10.
C21_StrongSignalsClamped ==
    (result # NotCalled /\ call[1] >= STRONGEST_RSSI
                        /\ call[2] > STRONGEST_RSSI)
        => result[2] = result[1]

\* C21 witness: the distances of -10 and of 5 have been computed, both are
\* 0.18 m.
C21_Witness ==
    /\ result # NotCalled
    /\ call = <<-10, 5>>
    /\ result[1] = [kind |-> "float", cm |-> 18, num |-> -30]
    /\ result[2] = [kind |-> "float", cm |-> 18, num |-> -30]

\* distance d1 is a value, d2 is a value and d1 >= d2
AtLeast(d1, d2) ==
    /\ d1.kind \in {"float", "big"}
    /\ d2.kind \in {"float", "big"}
    /\ \/ d1.kind = "float" /\ d2.kind = "float" /\ d1.cm >= d2.cm
       \/ d1.kind = "big" /\ d2.kind = "float"
       \/ d1.kind = "big" /\ d2.kind = "big" /\ d1.num >= d2.num

\* C22: for all a <= b <= -10 the distance of a, the weaker signal, is
\* greater than or equal to the distance of b.
C22_DistanceMonotone ==
    (result # NotCalled /\ call[1] <= call[2] /\ call[2] <= STRONGEST_RSSI)
        => AtLeast(result[1], result[2])

\* C23: for every integer rssi, however weak, rssi_to_distance returns a
\* finite, non-negative value, never an error.
C23_DistanceFiniteValue ==
    result # NotCalled =>
        \A i \in 1..2 : result[i].kind \in {"float", "big"} /\ result[i].cm >= 0

\* C24: a relay sends exactly one REPORT:<relay_id>:<rssi>, with its own
\* upper-cased id and the rssi at which it heard the signal, for a direct
\* PING or SOS, and sends nothing in response to any other message, a
\* REPORT of another relay included.
C24_OneReportPerDirectSignal ==
    result # NotCalled =>
        result.mine.sent =
            IF call.message # None /\ call.message # <<>>
                  /\ IsDirectKind(call.message)
            THEN <<Txt3(sREPORT, RelayId(call.relay_id), FormatInt(call.rssi))>>
            ELSE <<>>

\* C25: the report a relay with id R builds for a ping heard at rssi v,
\* ingested by the master, records v under R upper-cased and changes
\* neither the other readings nor the device id or the sos flag.
C25_ReportRoundTrip ==
    [][ (result # NotCalled /\ pc = "recv" /\ pc' = "tri")
            => /\ current_readings' =
                      Put(current_readings, RelayId(call.relay_id), call.rssi)
               /\ current_device_id' = current_device_id
               /\ is_sos' = is_sos ]_vars

\* C26: two relays with different ids that hear the same ping at the same
\* time wait different delays before they transmit.
C26_RelaysStaggered ==
    ( /\ result # NotCalled
      /\ RelayId(call.relay_id) # RelayId(call.other_id)
      /\ result.mine.sent # <<>>
      /\ result.other.sent # <<>> )
        => result.mine.delay # result.other.delay

\* C27: send_location ends after at most RETRY_COUNT posts; it returns True
\* exactly when an attempt received status 200, which is then the last
\* attempt, and False when every attempt made ended otherwise.
C27_SendLocationTerminates ==
    result # NotCalled =>
        /\ result.attempts <= RETRY_COUNT
        /\ result.attempts = RETRY_COUNT => result.returned # "running"
        /\ \A k \in 1..(result.attempts - 1) : call[k] # "200"
        /\ result.returned = "True" <=> call[result.attempts] = "200"
        /\ result.returned = "False" =>
               \A k \in 1..result.attempts : call[k] # "200"

\* C27 witness: two attempts failed, the third received 200 and the call
\* returned True.
C27_Witness ==
    /\ result # NotCalled
    /\ call = <<"Timeout", "500", "200">>
    /\ result.attempts = 3
    /\ result.returned = "True"

\* C28: a 404 or a 401 ends send_location with False at once, without a
\* wait and without a further attempt; every other failure is followed by
\* a wait of one second and a retry as long as attempts remain.
C28_PermanentRejectionNotRetried ==
    [][ LET n == Progress.attempts + 1
        IN (Progress.returned = "running" /\ result' # result) =>
              /\ call[n] \in {"404", "401"} =>
                    /\ result'.returned = "False"
                    /\ result'.attempts = n
                    /\ result'.slept = Progress.slept
              /\ (call[n] \notin {"200", "404", "401"} /\ n < RETRY_COUNT) =>
                    /\ result'.returned = "running"
                    /\ result'.attempts = n
                    /\ result'.slept = Progress.slept + 1
              /\ (result'.returned = "False" /\ n < RETRY_COUNT) =>
                    call[n] \in {"404", "401"} ]_vars

\* C28 witness: a 500 was retried after one second, the 401 that followed
\* ended the call.
C28_Witness ==
    /\ result # NotCalled
    /\ call[1] = "500"
    /\ call[2] = "401"
    /\ result = [attempts |-> 2, slept |-> 1, returned |-> "False"]

\* C29: the master is in its receive/compute loop only with an anchor
\* configuration that contains MASTER, ANCHOR_2 and ANCHOR_3; with any
\* other configuration run_master has returned without ingesting a
\* message, so in the loop the lookup of the three anchors succeeds.
C29_LoopOnlyWithAllAnchors ==
    /\ pc \notin {"start", "returned"} => Required \subseteq DOMAIN anchors
    /\ (pc # "start" /\ ~(Required \subseteq DOMAIN anchors))
          => /\ pc = "returned"
             /\ delivered = 0
             /\ current_readings = EmptyReadings
             /\ total_positions = 0
    /\ pc = "send" =>
          \A i \in 1..3 :
              /\ TriInput(current_readings)[i].x = anchors[RequiredAnchors[i]].x
              /\ TriInput(current_readings)[i].y = anchors[RequiredAnchors[i]].y

\* C29 witness: a configuration with four anchors passed the validation
\* and the loop has looked the three anchors up and computed a position.
C29_Witness ==
    /\ DOMAIN anchors = Required \cup {sANCHOR_4}
    /\ pc = "send"
    /\ delivery.pos.kind = "point"

\* C30: in SOS test mode the k-th message the tourist transmits is
\* SOS:<DEVICE_ID> exactly when 5 <= k <= 7 and PING:<DEVICE_ID> for every
\* other k, and exactly one message is built per ping interval.
C30_SosOnPingsFiveToSeven ==
    (call \in TouristCalls /\ result # NotCalled) =>
        /\ \A k \in 1..Len(result.sent) :
              /\ result.sent[k] = Txt(sSOS, call.device_id)
                    <=> (5 <= k /\ k <= 7)
              /\ result.sent[k] = Txt(sPING, call.device_id)
                    <=> ~(5 <= k /\ k <= 7)
        /\ call.node => result.sent = result.built
        /\ Len(result.built) = result.ping_count
        /\ result.slept = PING_INTERVAL * Len(result.built)

\* C30 witness: a device with a radio has sent its pings past the SOS
\* window.
C30_Witness ==
    /\ call \in TouristCalls
    /\ result # NotCalled
    /\ call.node
    /\ Len(result.sent) >= 8
    /\ result.sent[7] = Txt(sSOS, call.device_id)
    /\ result.sent[8] = Txt(sPING, call.device_id)

\* C31: in every state of the master loop a captured device id or a true
\* sos flag implies a MASTER entry in the reading set; the resets after a
\* computation and after a timeout clear all three together.
C31_DeviceImpliesMasterReading ==
    (current_device_id # None \/ is_sos)
        => sMASTER \in DOMAIN current_readings

\* C31 witness: an SOS of a device and a relay report were heard and the
\* cycle is still open.
C31_Witness ==
    /\ pc = "timeout"
    /\ current_device_id = sD1
    /\ is_sos
    /\ DOMAIN current_readings = {sMASTER, sANCHOR_2}

\* the iteration computes a fix and hands it to backend.send_location
EmitsFix == pc = "tri" /\ pc' = "send"

\* seconds since the reading of anchor a was stored
ReadingAge(a) == now - reading_time[a]

\* C32: every reading that contributes to an emitted position fix was
\* ingested no more than the 15-second timeout before the fix was
\* computed, also when direct pings keep arriving in between.
C32_FixUsesFreshReadings ==
    [][ EmitsFix =>
          \A a \in Required : ReadingAge(a) <= TIMEOUT_SECONDS ]_vars

\* the device whose ping caused the reading of anchor a in the first cycle
CauseOfReading(a) == Latest(Heard, LAMBDA pk : AnchorOf(pk) = a).cause

\* C33: when two devices ping during the same cycle, the three readings
\* used for an emitted position fix all stem from pings of the device whose
\* id the fix carries.
C33_FixFromOneDevice ==
    (pc = "send" /\ total_positions = 1) =>
        \A a \in Required : CauseOfReading(a) = delivery.device_id

====
